---- MODULE Spec2Model ----
(***************************************************************************)
(* ComfyUI-LG_SamplingUtils: the per-step hooks of LGNoiseInjection,       *)
(* LGNoiseInjectionLatent (cfg_function) and ZImageTimestepNoise           *)
(* (unet_wrapper), with the model handles they are attached to.            *)
(*                                                                         *)
(* Numbers.  Percentages, strengths, noise levels and mask values are      *)
(* fixed-point integers in units of 1/Den.  A timestep handed to the       *)
(* denoiser is an integer in units of 1/TDen, the common denominator of    *)
(* both perturbation formulas.  Ratios that the code computes by division  *)
(* are kept as records [n, d] with d > 0 and compared by cross             *)
(* multiplication.  A tensor is a sequence (batch) of rows (width); the    *)
(* channel and height dimensions have size one.                            *)
(*                                                                         *)
(* SigmasEditor.adjust_sigmas is modelled with its class-level cache.  The *)
(* sigmas_adjustments string is a sequence of JSON tokens; a numpy array   *)
(* is a shape with its elements in row-major order, each a value in units  *)
(* of 1/Den or NaN.                                                        *)
(***************************************************************************)
EXTENDS Integers, Sequences, FiniteSets, TLC

VARIABLES models, inj, pert, sink, ret, out, sampler, editor

vars == <<models, inj, pert, sink, ret, out, sampler, editor>>

\* ------------------------------------------------------------------ scales

\* 1.0 in fixed point: the widgets move in steps of 0.01
Den == 100

\* torch.rand draws are k/RDen, k in 0..RDen-1
RDen == 4

\* 1.0 of a timestep passed to the denoiser
TDen == 2 * RDen * Den * Den

\* the hook counters are capped here
MaxSteps == 4

\* model handles that may exist: the loaded model and its clones
MaxModels == 3

\* hook calls in a run of the general specification
MaxCalls == 4

\* ----------------------------------------------------------------- helpers

Min(a, b) == IF a <= b THEN a ELSE b

Max(a, b) == IF a >= b THEN a ELSE b

Abs(a) == IF a < 0 THEN -a ELSE a

RECURSIVE SumSeq(_)
SumSeq(s) == IF s = <<>> THEN 0 ELSE Head(s) + SumSeq(Tail(s))

\* a ratio n/d, d > 0
Ratio(n, d) == [n |-> n, d |-> d]

RLeq(a, b) == a.n * b.d <= b.n * a.d

REq(a, b) == a.n * b.d = b.n * a.d

RECURSIVE GCD(_, _)
GCD(a, b) == IF b = 0 THEN a ELSE GCD(b, a % b)

\* n/d in lowest terms (n >= 0, d > 0)
Reduce(n, d) == LET g == GCD(n, d) IN Ratio(n \div g, d \div g)

\* ----------------------------------------------------------------- tensors

Batch(t) == Len(t)

Width(t) == IF Len(t) = 0 THEN 0 ELSE Len(t[1])

\* all elements of a tensor, in order
RECURSIVE Flat(_)
Flat(t) == IF t = <<>> THEN <<>> ELSE Head(t) \o Flat(Tail(t))

Numel(t) == Len(Flat(t))

\* elementwise a - b of two tensors of one shape
TSub(a, b) == [i \in 1..Batch(a) |-> [j \in 1..Width(a) |-> a[i][j] - b[i][j]]]

\* F.interpolate(mode='bilinear', align_corners=False) of one row to width w
InterpRow(row, w) ==
    LET win == Len(row)
        den == 2 * w
        src(j) == Max(0, (2 * (j - 1) + 1) * win - w)
        i0(j) == src(j) \div den
        i1(j) == Min(i0(j) + 1, win - 1)
        lam(j) == src(j) % den
    IN [j \in 1..w |->
          row[i0(j) + 1] + (lam(j) * (row[i1(j) + 1] - row[i0(j) + 1])) \div den]

Interpolate(t, w) == [i \in 1..Batch(t) |-> InterpRow(t[i], w)]

\* t.expand(b, -1, -1, -1) of a single-sample tensor
Expand(t, b) == [i \in 1..b |-> t[1]]

\* t[:b]
Truncate(t, b) == SubSeq(t, 1, Min(b, Batch(t)))

\* whether tensors of these batch sizes broadcast in elementwise arithmetic
Broadcasts(b1, b2) == b1 = b2 \/ b1 = 1 \/ b2 = 1

\* tensor.std(): the unbiased variance as a ratio; d = 0 stands for NaN,
\* which torch returns for fewer than two elements
Variance(t) ==
    LET f == Flat(t)
        n == Len(f)
        sq == [k \in 1..n |-> f[k] * f[k]]
    IN [n |-> n * SumSeq(sq) - SumSeq(f) * SumSeq(f), d |-> n * (n - 1)]

IsNaN(v) == v.d = 0

\* a > b * 3 on standard deviations; False when either is NaN
StdExceeds3(vf, vc) ==
    /\ ~IsNaN(vf)
    /\ ~IsNaN(vc)
    /\ vf.n * vc.d > 9 * vc.n * vf.d

\* ------------------------------------------------------------ model handles

\* a model handle: the hooks its options hold (0: none, else the attachment)
BaseModel == [cfg |-> 0, unet |-> 0]

NoMask == [rank |-> 0, data |-> <<>>]

NoMaskLatent == [dims |-> 0, data |-> <<>>]

\* no hook has been called yet
NoOut ==
    [kind |-> "none", handle |-> 0, att |-> 0, step |-> 0, stage |-> "none",
     logged |-> FALSE]

\* a hook result with the handle the sampler called through
Through(h, o) ==
    [f \in DOMAIN o \cup {"handle"} |-> IF f = "handle" THEN h ELSE o[f]]

\* no node has run yet
NoRet ==
    [op |-> "none", strength |-> 0, input |-> 0, handle |-> 0, cloned |-> FALSE,
     hooked |-> FALSE]

\* the node ids that the front-end gives to SigmasEditor nodes
NodeIds == {"7", "12"}

\* _last_sent_data.get(unique_id) of an id that was never stored
NoKey == [has |-> FALSE, key |-> <<>>]

NoArray == [shape |-> <<>>, data |-> <<>>]

\* no call of adjust_sigmas yet
NoEdit ==
    [sigmas |-> <<>>, text |-> <<>>, unique_id |-> "None", stage |-> "none",
     result |-> NoArray, sent |-> FALSE,
     message |-> [node_id |-> "None", original |-> <<>>, adjusted |-> NoArray]]

\* _last_sent_data = {} and no call made
NewEditor == [cache |-> [u \in NodeIds |-> NoKey], last |-> NoEdit]

\* hook calls made so far
TotalCalls ==
    SumSeq([a \in 1..Len(inj) |-> inj[a].step_counter])
    + SumSeq([a \in 1..Len(pert) |-> pert[a].step_counter])

\* ---------------------------------------------------------- SignalInjector

\* LGNoiseInjection._prepare_mask: [H,W] -> [1,H,W]; then always unsqueeze(1)
PrepareMaskImage(mask) ==
    LET d == IF mask.rank = 2 THEN 3 ELSE mask.rank
    IN [dims |-> d + 1, data |-> mask.data]

\* LGNoiseInjectionLatent._prepare_mask: unsqueeze(1) only for a 3-D mask
PrepareMaskLatent(mask) ==
    LET d == IF mask.rank = 2 THEN 3 ELSE mask.rank
    IN [dims |-> IF d = 3 THEN 4 ELSE d, data |-> mask.data]

PrepareMask(variant, mask) ==
    IF mask.rank = 0 THEN NoMaskLatent
    ELSE IF variant = "image" THEN PrepareMaskImage(mask)
    ELSE PrepareMaskLatent(mask)

\* the early return with "<": a strength of 0 installs the hook
InjNoOp_Strict(strength) == strength < 0

\* the early return of both apply methods
InjNoOp(strength) == strength <= 0

\* the closure that apply() builds for cfg_function
InjClosure(variant, strength, start_percent, end_percent, ref_latent, mask) ==
    [variant |-> variant, strength |-> strength,
     start_percent |-> start_percent, end_percent |-> end_percent,
     ref_latent |-> ref_latent, mask_latent |-> PrepareMask(variant, mask),
     step_counter |-> 0]

\* apply(): the handles, attachments and returned handle after the call
InjApplyResult(ms, js, h, variant, strength, start_percent, end_percent, ref_latent, mask) ==
    IF InjNoOp(strength)
    THEN [models |-> ms, inj |-> js,
          ret |-> [op |-> "apply", strength |-> strength, input |-> h,
                   handle |-> h, cloned |-> FALSE, hooked |-> FALSE]]
    ELSE [models |-> Append(ms, [ms[h] EXCEPT !.cfg = Len(js) + 1]),
          inj |-> Append(js, InjClosure(variant, strength, start_percent,
                                        end_percent, ref_latent, mask)),
          ret |-> [op |-> "apply", strength |-> strength, input |-> h,
                   handle |-> Len(ms) + 1, cloned |-> TRUE, hooked |-> TRUE]]

\* cfg_result = uncond + cond_scale * (cond - uncond)
CfgResult(cond, uncond, cond_scale) ==
    [i \in 1..Batch(cond) |-> [j \in 1..Width(cond) |->
        uncond[i][j] + cond_scale * (cond[i][j] - uncond[i][j])]]

\* progress = 1.0 - min(sigma, 1.0)
InjProgress(sigma) == Den - Min(sigma, Den)

\* the window test with its two comparisons joined by "and"
InjInactive_And(progress, start_percent, end_percent) ==
    progress < start_percent /\ progress > end_percent

\* the window test that returns cfg_result early
InjInactive(progress, start_percent, end_percent) ==
    progress < start_percent \/ progress > end_percent

\* resize to the spatial size, then expand a single sample or cut to the batch
AlignTo(t, b, w) ==
    LET r == IF Width(t) # w THEN Interpolate(t, w) ELSE t
    IN IF Batch(r) # b
       THEN (IF Batch(r) = 1 THEN Expand(r, b) ELSE Truncate(r, b))
       ELSE r

\* the ramp without the "1 -": rising instead of falling
Decay_Rising(progress, start_percent, end_percent) ==
    IF end_percent > start_percent
    THEN Ratio(progress - start_percent, end_percent - start_percent)
    ELSE Ratio(1, 1)

\* decay = 1 - (progress - start)/(end - start), or 1
Decay(progress, start_percent, end_percent) ==
    IF end_percent > start_percent
    THEN Ratio((end_percent - start_percent) - (progress - start_percent),
               end_percent - start_percent)
    ELSE Ratio(1, 1)

\* effective_strength = strength * decay
EffectiveStrength(strength, progress, start_percent, end_percent) ==
    LET decay == Decay(progress, start_percent, end_percent)
    IN Ratio(strength * decay.n, Den * decay.d)

\* the rescale without the division by feature_std
ClampScale2_NoDivide(vf, vc) ==
    IF StdExceeds3(vf, vc) THEN Reduce(9 * vc.n, vc.d) ELSE Ratio(1, 1)

\* the square of the factor feature_direction is multiplied by
ClampScale2(vf, vc) ==
    IF StdExceeds3(vf, vc) THEN Reduce(9 * vc.n * vf.d, vc.d * vf.n) ELSE Ratio(1, 1)

\* the log bound of the other hook
InjLogs_Five(step) == step <= 5

\* the log call at the end of an active step
InjLogs(step) == step <= 3

\* One call of cfg_function of attachment a (closure c).  stage tells where
\* the call ended: "early" (the window test returned cfg_result),
\* "raised_resize" (F.interpolate on the mask), "raised_arith" (a tensor
\* operation on unequal batch sizes) or "injected".  An injected result is
\* cfg_result + direction * sqrt(scale2) * mask * eff.
CfgFunction(a, c, cond, uncond, cond_scale, timestep) ==
    LET step == c.step_counter + 1
        cfg_result == CfgResult(cond, uncond, cond_scale)
        progress == InjProgress(timestep)
        b == Batch(cfg_result)
        w == Width(cfg_result)
        ref == AlignTo(c.ref_latent, b, w)
        hasMask == c.mask_latent.dims # 0
        \* a 5-D mask never matches the spatial shape and cannot be resized
        resizeRaises == hasMask /\ c.mask_latent.dims # 4
        mask == IF hasMask /\ ~resizeRaises
                THEN AlignTo(c.mask_latent.data, b, w) ELSE <<>>
        eff == EffectiveStrength(c.strength, progress, c.start_percent, c.end_percent)
        subRaises == ~Broadcasts(Batch(ref), b)
        direction == IF subRaises THEN <<>> ELSE TSub(ref, cfg_result)
        vc == Variance(cfg_result)
        vf == Variance(direction)
        mulRaises == hasMask /\ ~resizeRaises /\ ~Broadcasts(Batch(mask), b)
        base == [kind |-> "cfg", att |-> a, step |-> step, stage |-> "early",
                 logged |-> FALSE, progress |-> progress,
                 args |-> [cond |-> cond, uncond |-> uncond,
                           cond_scale |-> cond_scale, timestep |-> timestep],
                 cfg_result |-> cfg_result, eff |-> Ratio(0, 1),
                 direction |-> <<>>, scale2 |-> Ratio(1, 1),
                 masked |-> FALSE, mask |-> <<>>]
    IN IF InjInactive(progress, c.start_percent, c.end_percent) THEN base
       ELSE IF resizeRaises
       THEN [base EXCEPT !.stage = "raised_resize"]
       ELSE IF subRaises \/ mulRaises
       THEN [base EXCEPT !.stage = "raised_arith", !.eff = eff]
       ELSE [base EXCEPT !.stage = "injected", !.eff = eff, !.direction = direction,
                         !.scale2 = ClampScale2(vf, vc), !.masked = hasMask,
                         !.mask = mask, !.logged = InjLogs(step)]

\* the sampler's merge on a handle without a guidance hook
CfgBaseline(cond, uncond, cond_scale, timestep) ==
    [kind |-> "cfg", att |-> 0, step |-> 0, stage |-> "baseline",
     logged |-> FALSE, progress |-> 0,
     args |-> [cond |-> cond, uncond |-> uncond,
               cond_scale |-> cond_scale, timestep |-> timestep],
     cfg_result |-> CfgResult(cond, uncond, cond_scale), eff |-> Ratio(0, 1),
     direction |-> <<>>, scale2 |-> Ratio(1, 1), masked |-> FALSE, mask |-> <<>>]

\* LGNoiseInjection.apply / LGNoiseInjectionLatent.apply on handle h
InjApply(h, variant, strength, start_percent, end_percent, ref_latent, mask) ==
    /\ h \in 1..Len(models)
    /\ Len(models) < MaxModels
    /\ LET r == InjApplyResult(models, inj, h, variant, strength, start_percent,
                               end_percent, ref_latent, mask)
       IN /\ models' = r.models
          /\ inj' = r.inj
          /\ ret' = r.ret
          /\ sink' = [sink EXCEPT !.inj = IF Len(r.inj) > Len(inj)
                                          THEN Append(@, 0) ELSE @]
    /\ UNCHANGED <<pert, out, sampler, editor>>

\* the sampler merges guidance through handle h
CfgStep(h, cond, uncond, cond_scale, timestep) ==
    /\ h \in 1..Len(models)
    /\ LET a == models[h].cfg
       IN IF a = 0
          THEN /\ out' = Through(h, CfgBaseline(cond, uncond, cond_scale, timestep))
               /\ UNCHANGED <<inj, sink>>
          ELSE /\ inj[a].step_counter < MaxSteps
               /\ LET o == CfgFunction(a, inj[a], cond, uncond, cond_scale, timestep)
                  IN /\ out' = Through(h, o)
                     /\ inj' = [inj EXCEPT ![a].step_counter = o.step]
                     /\ sink' = [sink EXCEPT !.inj[a] = IF o.logged THEN @ + 1 ELSE @]
    /\ UNCHANGED <<models, pert, ret, sampler, editor>>

\* -------------------------------------------------------- TimestepPerturber

\* seeds are 64-bit: SeedLimbs limbs of LimbBits bits each, lowest first
LimbBits == 16

SeedLimbs == 4

LimbBase == 2 ^ LimbBits

\* 0xffffffffffffffff
SeedMax == [i \in 1..SeedLimbs |-> LimbBase - 1]

\* limbs + k as an unbounded integer: the limbs and the carry out of the top
RECURSIVE AddToLimbs(_, _)
AddToLimbs(limbs, k) ==
    IF limbs = <<>> THEN [limbs |-> <<>>, carry |-> k]
    ELSE LET sum == Head(limbs) + k
             rest == AddToLimbs(Tail(limbs), sum \div LimbBase)
         IN [limbs |-> <<sum % LimbBase>> \o rest.limbs, carry |-> rest.carry]

\* the seed taken from a generator shared by all wrappers
StepSeed_Shared(stored_seed, current_step) == AddToLimbs(stored_seed, TotalCalls + 1)

\* stored_seed + current_step
StepSeed(stored_seed, current_step) == AddToLimbs(stored_seed, current_step)

\* generator.manual_seed raises for a value above 2^64 - 1
SeedRaises(seed) == seed.carry # 0

\* torch.rand(1, generator=generator): the first draw after seeding, k/RDen
RECURSIVE LimbMix(_, _)
LimbMix(limbs, w) ==
    IF limbs = <<>> THEN 0 ELSE w * Head(limbs) + LimbMix(Tail(limbs), w + 2)

Rand(seed) == LimbMix(seed.limbs, 1) % RDen

\* the early return of patch
PertNoOp(noise_strength) == noise_strength <= 0

\* the closure that patch() builds for unet_wrapper
PertClosure(sigmas, mode, noise_strength, seed, start_percent, end_percent, mask) ==
    [stored_mode |-> mode, stored_strength |-> noise_strength,
     stored_seed |-> seed, stored_start |-> start_percent,
     stored_end |-> end_percent, stored_sigmas |-> sigmas,
     stored_total_steps |-> Len(sigmas) - 1, stored_mask |-> mask,
     step_counter |-> 0]

\* patch(): the handles, attachments and returned handle after the call
PertPatchResult(ms, ps, h, sigmas, mode, noise_strength, seed, start_percent, end_percent, mask) ==
    IF PertNoOp(noise_strength)
    THEN [models |-> Append(ms, ms[h]), pert |-> ps,
          ret |-> [op |-> "patch", strength |-> noise_strength, input |-> h,
                   handle |-> Len(ms) + 1, cloned |-> TRUE, hooked |-> FALSE]]
    ELSE [models |-> Append(ms, [ms[h] EXCEPT !.unet = Len(ps) + 1]),
          pert |-> Append(ps, PertClosure(sigmas, mode, noise_strength, seed,
                                          start_percent, end_percent, mask)),
          ret |-> [op |-> "patch", strength |-> noise_strength, input |-> h,
                   handle |-> Len(ms) + 1, cloned |-> TRUE, hooked |-> TRUE]]

\* the scan with "<=": the last of several closest values wins
RECURSIVE ScanSigmas_LastWins(_, _, _, _, _)
ScanSigmas_LastWins(sigmas, sigma_val, i, min_diff, matched_idx) ==
    IF i > Len(sigmas) THEN matched_idx
    ELSE LET diff == Abs(sigmas[i] - sigma_val)
         IN IF min_diff = -1 \/ diff <= min_diff
            THEN ScanSigmas_LastWins(sigmas, sigma_val, i + 1, diff, i - 1)
            ELSE ScanSigmas_LastWins(sigmas, sigma_val, i + 1, min_diff, matched_idx)

\* the scan for the closest schedule value: (min_diff, matched_idx) after
\* the entries from index i on, given the pair before them; -1 is infinity
RECURSIVE ScanSigmas(_, _, _, _, _)
ScanSigmas(sigmas, sigma_val, i, min_diff, matched_idx) ==
    IF i > Len(sigmas) THEN matched_idx
    ELSE LET diff == Abs(sigmas[i] - sigma_val)
         IN IF min_diff = -1 \/ diff < min_diff
            THEN ScanSigmas(sigmas, sigma_val, i + 1, diff, i - 1)
            ELSE ScanSigmas(sigmas, sigma_val, i + 1, min_diff, matched_idx)

\* matched_idx, counted from 0
MatchedIdx(sigmas, sigma_val) == ScanSigmas(sigmas, sigma_val, 1, -1, 0)

\* progress = matched_idx / total_steps if total_steps > 0 else 0, clamped
PertProgress(matched_idx, total_steps) ==
    IF total_steps > 0
    THEN Ratio(Max(0, Min(total_steps, matched_idx)), total_steps)
    ELSE Ratio(0, 1)

\* in_range = progress >= start and progress <= end
InRange(progress, start_percent, end_percent) ==
    /\ RLeq(Ratio(start_percent, Den), progress)
    /\ RLeq(progress, Ratio(end_percent, Den))

\* the mask brought to the input: None (0 dims), 5 dims (not resizable) or
\* resized to the width and, for a single sample, expanded to the batch
LatentMask(stored_mask, b, w) ==
    IF stored_mask.rank = 0 THEN NoMaskLatent
    ELSE LET d == (IF stored_mask.rank = 2 THEN 3 ELSE stored_mask.rank) + 1
         IN IF d # 4 THEN [dims |-> d, data |-> <<>>]
            ELSE LET r == Interpolate(stored_mask.data, w)
                 IN [dims |-> 4,
                     data |-> IF Batch(r) = 1 /\ b > 1 THEN Expand(r, b) ELSE r]

\* sigma mode: noise_factor = 1 + (raw - 0.5) * strength, as a multiple of
\* 1/(2 * RDen * Den)
NoiseFactor(raw, strength) == 2 * RDen * Den + (2 * raw - RDen) * strength

\* flow mode without the headroom: the full strength both ways
ActualDelta_NoHeadroom(t_orig, strength, raw) ==
    LET total_range == strength + strength
    IN IF total_range * 1000000 > Den
       THEN (raw * total_range - strength * RDen) * 2 * Den
       ELSE 0

\* flow mode: actual_delta, in units of 1/TDen
ActualDelta(t_orig, strength, raw) ==
    LET headroom_up == Den - t_orig
        headroom_down == t_orig - 0
        actual_up == Min(strength, headroom_up)
        actual_down == Min(strength, headroom_down)
        total_range == actual_down + actual_up
    IN IF total_range * 1000000 > Den
       THEN (raw * total_range - actual_down * RDen) * 2 * Den
       ELSE 0

\* torch.clamp(noisy_timestep, 0.0, 1.0)
Clamp01(t) == Max(0, Min(TDen, t))

\* noisy_timestep, in units of 1/TDen
NoisyTimestep(mode, timestep, strength, raw) ==
    IF mode = "sigma"
    THEN timestep * NoiseFactor(raw, strength)
    ELSE Clamp01(timestep * 2 * RDen * Den + ActualDelta(timestep, strength, raw))

\* the wrapped denoiser, a fixed function of its arguments
ApplyModel(input_x, timestep, c) ==
    [i \in 1..Batch(input_x) |-> [j \in 1..Width(input_x) |->
        c * input_x[i][j] + timestep]]

\* result_original * (1 - latent_mask) + result_noisy * latent_mask, times Den
Blend(result_original, result_noisy, latent_mask) ==
    LET b == Max(Batch(result_original), Batch(latent_mask))
        at(t, i) == IF Batch(t) = 1 THEN t[1] ELSE t[i]
    IN [i \in 1..b |-> [j \in 1..Width(result_original) |->
          at(result_original, i)[j] * (Den - at(latent_mask, i)[j])
          + at(result_noisy, i)[j] * at(latent_mask, i)[j]]]

\* the two log calls of a step
PertLogs(current_step) == current_step <= 5

\* One call of unet_wrapper of attachment a (closure c).  stage: "skipped"
\* (not in range: one call with the original timestep), "perturbed" (one
\* call with the noisy timestep), "blended" (two calls), "raised_resize",
\* "raised_seed" (manual_seed), "raised_arith" (the blend).  calls lists the
\* calls of apply_model_func; result is the returned tensor times result_den.
UnetWrapper(a, c, input_x, timestep, cargs) ==
    LET current_step == c.step_counter + 1
        matched_idx == MatchedIdx(c.stored_sigmas, timestep)
        progress == PertProgress(matched_idx, c.stored_total_steps)
        in_range == InRange(progress, c.stored_start, c.stored_end)
        latent_mask == LatentMask(c.stored_mask, Batch(input_x), Width(input_x))
        seed == StepSeed(c.stored_seed, current_step)
        raw == Rand(seed)
        t_orig == timestep * 2 * RDen * Den
        noisy == NoisyTimestep(c.stored_mode, timestep, c.stored_strength, raw)
        call_orig == [input |-> input_x, timestep |-> t_orig, c |-> cargs]
        call_noisy == [input |-> input_x, timestep |-> noisy, c |-> cargs]
        result_original == ApplyModel(input_x, t_orig, cargs)
        result_noisy == ApplyModel(input_x, noisy, cargs)
        base == [kind |-> "unet", att |-> a, step |-> current_step,
                 stage |-> "raised_resize", logged |-> FALSE,
                 args |-> [input |-> input_x, timestep |-> timestep, c |-> cargs],
                 matched_idx |-> matched_idx, progress |-> progress,
                 in_range |-> in_range, raw |-> 0, actual_delta |-> 0,
                 noisy |-> t_orig,
                 latent_mask |-> latent_mask.data, calls |-> <<>>,
                 result |-> <<>>, result_den |-> 1]
        seeded == [base EXCEPT !.raw = raw, !.noisy = noisy,
                               !.actual_delta =
                                   IF c.stored_mode = "flow"
                                   THEN ActualDelta(timestep, c.stored_strength, raw)
                                   ELSE 0,
                               !.logged = PertLogs(current_step)]
    IN IF latent_mask.dims \notin {0, 4} THEN base
       ELSE IF SeedRaises(seed) THEN [base EXCEPT !.stage = "raised_seed"]
       ELSE IF ~in_range
       THEN [seeded EXCEPT !.stage = "skipped", !.calls = <<call_orig>>,
                           !.result = result_original]
       ELSE IF latent_mask.dims = 0
       THEN [seeded EXCEPT !.stage = "perturbed", !.calls = <<call_noisy>>,
                           !.result = result_noisy]
       ELSE IF ~Broadcasts(Batch(latent_mask.data), Batch(input_x))
       THEN [seeded EXCEPT !.stage = "raised_arith",
                           !.calls = <<call_orig, call_noisy>>]
       ELSE [seeded EXCEPT !.stage = "blended",
                           !.calls = <<call_orig, call_noisy>>,
                           !.result = Blend(result_original, result_noisy,
                                            latent_mask.data),
                           !.result_den = Den]

\* the sampler's denoiser call on a handle without a wrapper
UnetDirect(input_x, timestep, cargs) ==
    LET t_orig == timestep * 2 * RDen * Den
    IN [kind |-> "unet", att |-> 0, step |-> 0, stage |-> "direct",
        logged |-> FALSE,
        args |-> [input |-> input_x, timestep |-> timestep, c |-> cargs],
        matched_idx |-> 0, progress |-> Ratio(0, 1), in_range |-> FALSE,
        raw |-> 0, actual_delta |-> 0, noisy |-> t_orig, latent_mask |-> <<>>,
        calls |-> <<[input |-> input_x, timestep |-> t_orig, c |-> cargs]>>,
        result |-> ApplyModel(input_x, t_orig, cargs), result_den |-> 1]

\* what the sampler has seen of one wrapper: the position in its current
\* run and the last perturbation
NewSampler == [pos |-> 0, step |-> 0, timestep |-> 0, noisy |-> 0, stage |-> "none"]

\* ZImageTimestepNoise.patch on handle h
PertPatch(h, sigmas, mode, noise_strength, seed, start_percent, end_percent, mask) ==
    /\ h \in 1..Len(models)
    /\ Len(models) < MaxModels
    /\ LET r == PertPatchResult(models, pert, h, sigmas, mode, noise_strength,
                                seed, start_percent, end_percent, mask)
       IN /\ models' = r.models
          /\ pert' = r.pert
          /\ ret' = r.ret
          /\ sink' = [sink EXCEPT !.pert = IF Len(r.pert) > Len(pert)
                                           THEN Append(@, 0) ELSE @]
          /\ sampler' = IF Len(r.pert) > Len(pert)
                        THEN Append(sampler, NewSampler) ELSE sampler
    /\ UNCHANGED <<inj, out, editor>>

\* the sampler calls the denoiser through handle h
UnetStep(h, input_x, timestep, cargs) ==
    /\ h \in 1..Len(models)
    /\ LET a == models[h].unet
       IN IF a = 0
          THEN /\ out' = Through(h, UnetDirect(input_x, timestep, cargs))
               /\ UNCHANGED <<pert, sink, sampler>>
          ELSE /\ pert[a].step_counter < MaxSteps
               /\ LET o == UnetWrapper(a, pert[a], input_x, timestep, cargs)
                  IN /\ out' = Through(h, o)
                     /\ pert' = [pert EXCEPT ![a].step_counter = o.step]
                     /\ sink' = [sink EXCEPT !.pert[a] = IF o.logged THEN @ + 2 ELSE @]
                     /\ sampler' = [sampler EXCEPT ![a] =
                            [pos |-> @.pos + 1, step |-> o.step,
                             timestep |-> timestep, noisy |-> o.noisy,
                             stage |-> o.stage]]
    /\ UNCHANGED <<models, inj, ret, editor>>

\* a run start that also sets the attachment's step counter back to 0
NewRun_Resets(a) ==
    /\ a \in 1..Len(pert)
    /\ sampler[a].pos > 0
    /\ sampler' = [sampler EXCEPT ![a].pos = 0]
    /\ pert' = [pert EXCEPT ![a].step_counter = 0]
    /\ UNCHANGED <<models, inj, sink, ret, out, editor>>

\* the sampler starts another generation run on the wrapper of attachment a
NewRun(a) ==
    /\ a \in 1..Len(pert)
    /\ sampler[a].pos > 0
    /\ sampler' = [sampler EXCEPT ![a].pos = 0]
    /\ UNCHANGED <<models, inj, pert, sink, ret, out, editor>>

\* ------------------------------------------------ inputs of the perturber

PertTimesteps == {0, 49, 50, 100, 150}

PertStrengths == {5, 60}

PertSeeds == {<<0, 0, 0, 0>>, [SeedMax EXCEPT ![1] = LimbBase - 3]}

PertWindows == {<<0, 100>>, <<50, 50>>, <<75, 25>>}

SigmaLists == {<<100, 50, 0>>, <<100, 75, 50, 50, 0>>, <<80>>, <<>>}

PertMasks ==
    {NoMask,
     [rank |-> 2, data |-> <<<<0, 100>>>>],
     [rank |-> 3, data |-> <<<<100>>, <<0>>>>],
     [rank |-> 3, data |-> <<<<0, 0>>>>],
     [rank |-> 4, data |-> <<<<100, 100>>>>]}

\* (input, c): latents of batch 1 to 3 with their conditioning
UnetArgs ==
    {<<<<<<2, 4>>>>, 1>>,
     <<<<<<6>>, <<2>>>>, 2>>,
     <<<<<<2>>, <<0>>, <<4>>>>, 1>>}

PertInit ==
    /\ \E sigmas \in SigmaLists, mode \in {"sigma", "flow"},
          strength \in PertStrengths, seed \in PertSeeds,
          win \in PertWindows, mask \in PertMasks :
          LET r == PertPatchResult(<<BaseModel>>, <<>>, 1, sigmas, mode, strength,
                                   seed, win[1], win[2], mask)
          IN /\ models = r.models
             /\ pert = r.pert
             /\ ret = r.ret
    /\ inj = <<>>
    /\ sink = [inj |-> <<>>, pert |-> <<0>>]
    /\ out = NoOut
    /\ sampler = <<NewSampler>>
    /\ editor = NewEditor

PertNext ==
    \E p \in UnetArgs, t \in PertTimesteps : UnetStep(2, p[1], t, p[2])

\* one perturber attachment, driven by the sampler
SpecPert == PertInit /\ [][PertNext]_vars

\* ------------------------------------------------- inputs of the injector

InjTimesteps == {0, 25, 50, 100, 150}

InjStrengths == {20, 100}

InjWindows == {<<0, 100>>, <<25, 75>>, <<50, 50>>, <<75, 25>>}

\* reference latents: one or two samples, one or two pixels wide
RefLatents == {<<<<12, -12>>>>, <<<<6>>, <<2>>>>, <<<<0, 8>>, <<2, 2>>>>}

\* the node variant with the mask it is given: rank, then the samples
InjSources ==
    {<<"image", NoMask>>,
     <<"latent", NoMask>>,
     <<"image", [rank |-> 2, data |-> <<<<0, 100>>>>]>>,
     <<"latent", [rank |-> 3, data |-> <<<<100>>, <<0>>>>]>>,
     <<"image", [rank |-> 4, data |-> <<<<100, 100>>>>]>>,
     <<"latent", [rank |-> 4, data |-> <<<<100, 0>>>>]>>}

\* (cond, uncond, cond_scale) of one shape, batch 1 to 3
CondArgs ==
    {<<<<<<2, 4>>>>, <<<<0, 2>>>>, 1>>,
     <<<<<<2, 2>>>>, <<<<2, 2>>>>, 3>>,
     <<<<<<4>>>>, <<<<0>>>>, 3>>,
     <<<<<<0, 2>>, <<4, 2>>>>, <<<<0, 0>>, <<2, 2>>>>, 3>>,
     <<<<<<2>>, <<0>>, <<4>>>>, <<<<0>>, <<0>>, <<2>>>>, 1>>}

InjInit ==
    /\ \E src \in InjSources, strength \in InjStrengths,
          win \in InjWindows, ref \in RefLatents :
          LET r == InjApplyResult(<<BaseModel>>, <<>>, 1, src[1], strength,
                                  win[1], win[2], ref, src[2])
          IN /\ models = r.models
             /\ inj = r.inj
             /\ ret = r.ret
    /\ pert = <<>>
    /\ sink = [inj |-> <<0>>, pert |-> <<>>]
    /\ out = NoOut
    /\ sampler = <<>>
    /\ editor = NewEditor

InjNext ==
    \E p \in CondArgs, t \in InjTimesteps : CfgStep(2, p[1], p[2], p[3], t)

\* one injector attachment, driven by the sampler
SpecInj == InjInit /\ [][InjNext]_vars

\* ------------------------------------------------- the nodes in a workflow

NodeStrengths == {-10, 0, 20}

Init ==
    /\ models = <<BaseModel>>
    /\ inj = <<>>
    /\ pert = <<>>
    /\ sink = [inj |-> <<>>, pert |-> <<>>]
    /\ ret = NoRet
    /\ out = NoOut
    /\ sampler = <<>>
    /\ editor = NewEditor

Next ==
    \/ \E h \in 1..Len(models), variant \in {"image", "latent"},
          strength \in NodeStrengths :
          InjApply(h, variant, strength, 0, 50, <<<<12, -12>>>>, NoMask)
    \/ \E h \in 1..Len(models), strength \in NodeStrengths :
          PertPatch(h, <<100, 50, 0>>, "flow", strength, <<0, 0, 0, 0>>, 0, 50, NoMask)
    \/ \E h \in 1..Len(models), t \in {50, 100} :
          TotalCalls < MaxCalls /\ CfgStep(h, <<<<2, 4>>>>, <<<<0, 2>>>>, 3, t)
    \/ \E h \in 1..Len(models), t \in {50, 100} :
          TotalCalls < MaxCalls /\ UnetStep(h, <<<<2, 4>>>>, t, 1)

\* nodes attached to a loaded model and its clones, and the sampler
Spec == Init /\ [][Next]_vars

ReproSeeds == {<<0, 0, 0, 0>>, <<1, 0, 0, 0>>}

ReproNext ==
    \/ \E seed \in ReproSeeds, mode \in {"sigma", "flow"} :
          PertPatch(1, <<100, 50, 0>>, mode, 20, seed, 0, 100, NoMask)
    \/ \E h \in 1..Len(models), t \in {50, 10} :
          TotalCalls < MaxCalls /\ UnetStep(h, <<<<2, 4>>>>, t, 1)
    \/ \E a \in 1..Len(pert) : NewRun(a)

\* perturber nodes on one loaded model, and a sampler that runs repeatedly
SpecRepro == Init /\ [][ReproNext]_vars

\* (variant, mask, window) of the injector nodes: with and without a mask,
\* a window that is active and one that never is
CountInjSources ==
    {<<"image", NoMask, <<0, 100>>>>,
     <<"latent", [rank |-> 3, data |-> <<<<100, 0>>>>], <<75, 25>>>>}

\* (mask, window) of the perturber nodes
CountPertSources ==
    {<<NoMask, <<75, 25>>>>,
     <<[rank |-> 2, data |-> <<<<0, 100>>>>], <<0, 100>>>>}

CountNext ==
    \/ \E src \in CountInjSources :
          InjApply(1, src[1], 20, src[3][1], src[3][2], <<<<12, -12>>>>, src[2])
    \/ \E src \in CountPertSources :
          PertPatch(1, <<100, 50, 0>>, "flow", 20, <<0, 0, 0, 0>>,
                    src[2][1], src[2][2], src[1])
    \/ \E h \in 1..Len(models) :
          TotalCalls < MaxCalls /\ CfgStep(h, <<<<2, 4>>>>, <<<<0, 2>>>>, 3, 50)
    \/ \E h \in 1..Len(models) :
          TotalCalls < MaxCalls /\ UnetStep(h, <<<<2, 4>>>>, 50, 1)
    \/ \E a \in 1..Len(pert) : NewRun(a)

\* injector and perturber nodes on one loaded model, with a sampler that
\* runs repeatedly
SpecCount == Init /\ [][CountNext]_vars

\* ------------------------------------------------------------ SigmasEditor

\* A JSON token.  t is "[", "]", "{", "}", ",", ":", "num", "str", "null",
\* "true", "false" or "bad" (characters that begin no JSON token); v is the
\* value of a number, or of a string that spells one (num); n is the number
\* of characters of a string.
Tok(t) == [t |-> t, v |-> 0, n |-> 0, num |-> FALSE]

TokNum(v) == [t |-> "num", v |-> v, n |-> 0, num |-> TRUE]

TokStr(n, num, v) == [t |-> "str", v |-> v, n |-> n, num |-> num]

\* A decoded JSON value: k is "num", "str", "null", "bool", "list" or
\* "dict"; n is the length of a string or the number of keys of a dict.
JVal(k, v, n, num, items) == [k |-> k, v |-> v, n |-> n, num |-> num, items |-> items]

JFail == [ok |-> FALSE, val |-> JVal("null", 0, 0, FALSE, <<>>), next |-> 0]

JOk(val, next) == [ok |-> TRUE, val |-> val, next |-> next]

\* json.loads, the decoder: the value that starts at token i and the index
\* after it
RECURSIVE JsonValue(_, _)
RECURSIVE JsonElems(_, _, _)
RECURSIVE JsonMembers(_, _, _)
JsonValue(toks, i) ==
    IF i > Len(toks) THEN JFail
    ELSE LET tk == toks[i]
         IN CASE tk.t = "num" -> JOk(JVal("num", tk.v, 0, TRUE, <<>>), i + 1)
              [] tk.t = "str" -> JOk(JVal("str", tk.v, tk.n, tk.num, <<>>), i + 1)
              [] tk.t = "null" -> JOk(JVal("null", 0, 0, FALSE, <<>>), i + 1)
              [] tk.t = "true" -> JOk(JVal("bool", 1, 0, TRUE, <<>>), i + 1)
              [] tk.t = "false" -> JOk(JVal("bool", 0, 0, TRUE, <<>>), i + 1)
              [] tk.t = "[" ->
                   IF i + 1 <= Len(toks) /\ toks[i + 1].t = "]"
                   THEN JOk(JVal("list", 0, 0, FALSE, <<>>), i + 2)
                   ELSE JsonElems(toks, i + 1, <<>>)
              [] tk.t = "{" ->
                   IF i + 1 <= Len(toks) /\ toks[i + 1].t = "}"
                   THEN JOk(JVal("dict", 0, 0, FALSE, <<>>), i + 2)
                   ELSE JsonMembers(toks, i + 1, {})
              [] OTHER -> JFail

\* the elements of a list after "[" or ",", acc being those already decoded
JsonElems(toks, i, acc) ==
    LET r == JsonValue(toks, i)
    IN IF ~r.ok \/ r.next > Len(toks) THEN JFail
       ELSE IF toks[r.next].t = ","
       THEN JsonElems(toks, r.next + 1, Append(acc, r.val))
       ELSE IF toks[r.next].t = "]"
       THEN JOk(JVal("list", 0, 0, FALSE, Append(acc, r.val)), r.next + 1)
       ELSE JFail

\* the members of an object after "{" or ",", keys being those already seen
JsonMembers(toks, i, keys) ==
    IF i + 1 > Len(toks) \/ toks[i].t # "str" \/ toks[i + 1].t # ":" THEN JFail
    ELSE LET r == JsonValue(toks, i + 2)
             ks == keys \cup {toks[i]}
         IN IF ~r.ok \/ r.next > Len(toks) THEN JFail
            ELSE IF toks[r.next].t = ","
            THEN JsonMembers(toks, r.next + 1, ks)
            ELSE IF toks[r.next].t = "}"
            THEN JOk(JVal("dict", 0, Cardinality(ks), FALSE, <<>>), r.next + 1)
            ELSE JFail

\* json.loads(sigmas_adjustments): the whole text must be one value
JsonLoads(toks) ==
    LET r == JsonValue(toks, 1)
    IN IF r.ok /\ r.next = Len(toks) + 1 THEN r ELSE JFail

\* try: json.loads(...)  except: []
AdjustedValues(toks) ==
    LET r == JsonLoads(toks)
    IN IF r.ok THEN r.val ELSE JVal("list", 0, 0, FALSE, <<>>)

\* len(adjusted_values): defined for a list, a dict and a string
HasLen(val) == val.k \in {"list", "dict", "str"}

PyLen(val) == IF val.k = "list" THEN Len(val.items) ELSE val.n

\* one element of a float array
Elem(v) == [v |-> v, nan |-> FALSE]

NaNElem == [v |-> 0, nan |-> TRUE]

\* sigmas.cpu().numpy()
ToArray(sigmas) ==
    [shape |-> <<Len(sigmas)>>, data |-> [i \in 1..Len(sigmas) |-> Elem(sigmas[i])]]

RECURSIVE Concat(_)
Concat(ss) == IF ss = <<>> THEN <<>> ELSE Head(ss) \o Concat(Tail(ss))

RECURSIVE Prod(_)
Prod(shape) == IF shape = <<>> THEN 1 ELSE Head(shape) * Prod(Tail(shape))

NpRaise == [raises |-> TRUE, shape |-> <<>>, data |-> <<>>]

\* np.array(adjusted_values, dtype=np.float64): numbers and booleans as
\* they are, None as NaN, a string through float(), lists of one shape as a
\* further dimension; a dict, a string that spells no number and lists of
\* unequal shapes raise
RECURSIVE NpArray(_)
NpArray(val) ==
    CASE val.k = "num" -> [raises |-> FALSE, shape |-> <<>>, data |-> <<Elem(val.v)>>]
      [] val.k = "bool" -> [raises |-> FALSE, shape |-> <<>>, data |-> <<Elem(val.v * Den)>>]
      [] val.k = "null" -> [raises |-> FALSE, shape |-> <<>>, data |-> <<NaNElem>>]
      [] val.k = "str" ->
           IF val.num THEN [raises |-> FALSE, shape |-> <<>>, data |-> <<Elem(val.v)>>]
           ELSE NpRaise
      [] val.k = "dict" -> NpRaise
      [] val.k = "list" ->
           LET cs == [i \in 1..Len(val.items) |-> NpArray(val.items[i])]
           IN IF cs = <<>> THEN [raises |-> FALSE, shape |-> <<0>>, data |-> <<>>]
              ELSE IF \E i \in 1..Len(cs) : cs[i].raises \/ cs[i].shape # cs[1].shape
              THEN NpRaise
              ELSE [raises |-> FALSE, shape |-> <<Len(cs)>> \o cs[1].shape,
                    data |-> Concat([i \in 1..Len(cs) |-> cs[i].data])]

\* adjusted_sigmas[-1] = 0: the last entry along the first dimension
SetLastZero(arr) ==
    LET row == Prod(Tail(arr.shape))
        keep == Len(arr.data) - row
    IN [arr EXCEPT !.data = [i \in 1..Len(arr.data) |->
                                IF i > keep THEN Elem(0) ELSE arr.data[i]]]

\* One call of adjust_sigmas with the class cache as it is.  stage:
\* "raised_len" (len() of a value without a length), "raised_array"
\* (np.array), "raised_index" (sigmas_np[-1] of an empty schedule, or
\* adjusted_sigmas[-1] of an array without dimensions), "returned".
AdjustSigmas(cache, sigmas, sigmas_adjustments, unique_id) ==
    LET sigmas_np == ToArray(sigmas)
        adjusted_values == AdjustedValues(sigmas_adjustments)
        original == PyLen(adjusted_values) # Len(sigmas_np.data)
        arr == NpArray(adjusted_values)
        adjusted == IF original THEN sigmas_np
                    ELSE [shape |-> arr.shape, data |-> arr.data]
        adjusted_sigmas == IF sigmas[Len(sigmas)] = 0 THEN SetLastZero(adjusted)
                           ELSE adjusted
        current_sigmas_key == [has |-> TRUE, key |-> sigmas]
        send == unique_id # "None" /\ cache[unique_id] # current_sigmas_key
        call == [sigmas |-> sigmas, text |-> sigmas_adjustments,
                 unique_id |-> unique_id, stage |-> "raised_len",
                 result |-> NoArray, sent |-> FALSE, message |-> NoEdit.message]
    IN IF ~HasLen(adjusted_values) THEN [cache |-> cache, last |-> call]
       ELSE IF ~original /\ arr.raises
       THEN [cache |-> cache, last |-> [call EXCEPT !.stage = "raised_array"]]
       ELSE IF sigmas = <<>> \/ (sigmas[Len(sigmas)] = 0 /\ adjusted.shape = <<>>)
       THEN [cache |-> cache, last |-> [call EXCEPT !.stage = "raised_index"]]
       ELSE [cache |-> IF send THEN [cache EXCEPT ![unique_id] = current_sigmas_key]
                       ELSE cache,
             last |-> [call EXCEPT
                         !.stage = "returned", !.result = adjusted_sigmas,
                         !.sent = send,
                         !.message = IF send
                                     THEN [node_id |-> unique_id, original |-> sigmas,
                                           adjusted |-> adjusted_sigmas]
                                     ELSE @]]

\* the graph executes a SigmasEditor node
EditCall(sigmas, sigmas_adjustments, unique_id) ==
    /\ editor' = AdjustSigmas(editor.cache, sigmas, sigmas_adjustments, unique_id)
    /\ UNCHANGED <<models, inj, pert, sink, ret, out, sampler>>

\* input schedules: ending in 0 and not, one entry, and the empty schedule
\* of a scheduler given nothing to do
EditSchedules == {<<100, 50, 0>>, <<90, 20>>, <<80>>, <<>>}

\* values of sigmas_adjustments
EditTexts ==
    {<<Tok("["), Tok("]")>>,
     <<Tok("["), TokNum(100), Tok(","), TokNum(40), Tok(","), TokNum(0), Tok("]")>>,
     <<Tok("["), TokNum(90), Tok(","), TokNum(30), Tok("]")>>,
     <<Tok("["), TokNum(90), Tok(","), TokNum(30)>>,
     <<Tok("bad")>>,
     <<TokNum(500)>>,
     <<Tok("null")>>,
     <<Tok("{"), TokStr(1, FALSE, 0), Tok(":"), TokNum(100), Tok("}")>>,
     <<TokStr(2, FALSE, 0)>>,
     <<Tok("["), TokNum(90), Tok(","), TokStr(1, FALSE, 0), Tok("]")>>,
     <<Tok("["), Tok("null"), Tok(","), TokNum(30), Tok("]")>>,
     <<Tok("["), Tok("["), TokNum(90), Tok("]"), Tok(","),
       Tok("["), TokNum(30), Tok("]"), Tok("]")>>,
     <<Tok("["), TokStr(3, TRUE, 70), Tok("]")>>}

EditInit ==
    /\ models = <<BaseModel>>
    /\ inj = <<>>
    /\ pert = <<>>
    /\ sink = [inj |-> <<>>, pert |-> <<>>]
    /\ ret = NoRet
    /\ out = NoOut
    /\ sampler = <<>>
    /\ editor = NewEditor

EditNext ==
    \E sigmas \in EditSchedules, text \in EditTexts, u \in NodeIds \cup {"None"} :
        EditCall(sigmas, text, u)

\* SigmasEditor nodes executed again and again by the graph
SpecEdit == EditInit /\ [][EditNext]_vars

\* --------------------------------------------------- claims: attachment

\* a node has just run with a strength that makes it a no-op
NoOpNodeRan == ret' # ret /\ ret'.strength <= 0

\* the returned handle holds the hooks of the input handle and no other
\* state changed
NoHookInstalled ==
    /\ UNCHANGED <<inj, pert, sink, sampler>>
    /\ models'[ret'.handle] = models[ret'.input]
    /\ \A k \in 1..Len(models) : models'[k] = models[k]

\* every call through a handle runs the hooks that handle holds, and a
\* handle without a hook gives the sampler's own output
HandleDecides ==
    /\ out.kind = "cfg" =>
         /\ out.att = models[out.handle].cfg
         /\ out.att = 0 => out.stage = "baseline"
    /\ out.kind = "unet" =>
         /\ out.att = models[out.handle].unet
         /\ out.att = 0 =>
              /\ out.stage = "direct"
              /\ Len(out.calls) = 1
              /\ out.calls[1].timestep = out.args.timestep * 2 * RDen * Den

\* C1 as stated: with strength <= 0 each node installs no hook and returns
\* a clone of the model handle.
C1_NoOpReturnsClone ==
    [][NoOpNodeRan =>
         /\ NoHookInstalled
         /\ ret'.handle = Len(models) + 1
         /\ Len(models') = Len(models) + 1]_vars

\* C1 as amended: with strength <= 0 each node installs no hook, so every
\* later step through the returned handle runs what the input handle runs;
\* ZImageTimestepNoise.patch returns a new clone, the two LGNoiseInjection
\* nodes return the input handle itself.
C1_NoOpInstallsNoHook ==
    /\ [][NoOpNodeRan =>
            /\ NoHookInstalled
            /\ ret'.op = "patch" =>
                 ret'.handle = Len(models) + 1 /\ Len(models') = Len(models) + 1
            /\ ret'.op = "apply" =>
                 ret'.handle = ret'.input /\ models' = models]_vars
    /\ [](HandleDecides /\ (ret.op # "none" /\ ret.strength <= 0
                              => models[ret.handle] = models[ret.input]))

\* a step through the handle that an injection node returned for strength 0
C1_Witness ==
    /\ ret.op = "apply" /\ ret.strength = 0 /\ ret.input = 1
    /\ out.kind = "cfg" /\ out.handle = ret.handle /\ out.stage = "baseline"

\* ------------------------------------------------------ claims: injector

\* a call of an installed cfg_function has just returned or raised
CfgCalled == vars' # vars /\ out'.kind = "cfg" /\ out'.att # 0

\* the progress of the call's noise level lies outside the attachment's window
OutsideWindow(o, c) ==
    LET p == Den - Min(o.args.timestep, Den)
    IN p < c.start_percent \/ p > c.end_percent

\* the call returned uncond + cond_scale * (cond - uncond) itself
ReturnedMerge(o) ==
    /\ o.stage = "early"
    /\ Batch(o.cfg_result) = Batch(o.args.cond)
    /\ \A i \in 1..Batch(o.args.cond) : \A j \in 1..Width(o.args.cond) :
          o.cfg_result[i][j] =
              o.args.uncond[i][j]
              + o.args.cond_scale * (o.args.cond[i][j] - o.args.uncond[i][j])

\* C2 as stated: a step whose progress is outside the window returns the
\* guidance merge and changes no state at all.
C2_NoStateChange ==
    [][(CfgCalled /\ OutsideWindow(out', inj[out'.att]))
         => (ReturnedMerge(out') /\ UNCHANGED <<models, inj, pert, sink>>)]_vars

\* C2 as amended: a step whose progress is outside the window (every step
\* when start > end) returns exactly the guidance merge and emits no
\* diagnostic record; its only state change is the attachment's step
\* counter, which goes up by one.
C2_InactiveStep ==
    [][(CfgCalled /\ OutsideWindow(out', inj[out'.att]))
         => /\ ReturnedMerge(out')
            /\ UNCHANGED <<models, pert, sink>>
            /\ inj' = [inj EXCEPT ![out'.att].step_counter = @ + 1]]_vars

\* an out-of-window step of a window with start <= end has returned
C2_Witness ==
    /\ out.kind = "cfg" /\ out.att # 0 /\ out.stage = "early"
    /\ inj[out.att].start_percent < inj[out.att].end_percent
    /\ out.progress > inj[out.att].end_percent
    /\ inj[out.att].step_counter >= 2

\* C8: inside the window the effective strength is strength * (end - p) /
\* (end - start): within [0, strength], strength at start, 0 at end and
\* non-increasing in progress; with end = start the decay is 1.
C8_DecayRamp ==
    (out.kind = "cfg" /\ out.stage \in {"injected", "raised_arith"}) =>
        LET c == inj[out.att]
            p == out.progress
            full == Ratio(c.strength, Den)
        IN /\ c.start_percent <= p /\ p <= c.end_percent
           /\ RLeq(Ratio(0, 1), out.eff) /\ RLeq(out.eff, full)
           /\ c.end_percent > c.start_percent =>
                /\ REq(out.eff, Ratio(c.strength * (c.end_percent - p),
                                      Den * (c.end_percent - c.start_percent)))
                /\ p = c.start_percent => REq(out.eff, full)
                /\ p = c.end_percent => out.eff.n = 0
                /\ \A q \in p..c.end_percent :
                      RLeq(EffectiveStrength(c.strength, q, c.start_percent,
                                             c.end_percent), out.eff)
           /\ c.end_percent = c.start_percent => REq(out.eff, full)

\* a step strictly inside a window, with a strength strictly between
C8_Witness ==
    /\ out.kind = "cfg" /\ out.stage = "injected"
    /\ inj[out.att].start_percent < out.progress
    /\ out.progress < inj[out.att].end_percent
    /\ out.eff.n > 0
    /\ ~REq(out.eff, Ratio(inj[out.att].strength, Den))

\* the variance of the direction that is applied: Var(direction) * scale2
AppliedVariance(o) ==
    LET vf == Variance(o.direction)
    IN Ratio(vf.n * o.scale2.n, vf.d * o.scale2.d)

\* C9: the standard deviation of the applied feature direction is at most
\* 3 times that of the merged output: a larger one is rescaled to exactly
\* 3 times it, one within the bound is left as it is.
C9_MagnitudeClamp ==
    (out.kind = "cfg" /\ out.stage = "injected") =>
        LET vf == Variance(out.direction)
            vc == Variance(out.cfg_result)
            nine == Ratio(9 * vc.n, vc.d)
        IN IF Numel(out.cfg_result) < 2
           THEN out.scale2 = Ratio(1, 1)
           ELSE /\ RLeq(AppliedVariance(out), nine)
                /\ ~RLeq(vf, nine) => REq(AppliedVariance(out), nine)
                /\ RLeq(vf, nine) => out.scale2 = Ratio(1, 1)

\* a direction was rescaled
C9_Witness ==
    /\ out.kind = "cfg" /\ out.stage = "injected"
    /\ Numel(out.cfg_result) >= 2
    /\ out.scale2 # Ratio(1, 1)
    /\ Variance(out.cfg_result).n > 0

\* C10 as stated: each of the first 3 invocations emits a record (checked
\* on the invocations that return) and no invocation after the third does.
C10_FirstThreeEmit ==
    [][(CfgCalled /\ out'.stage \in {"early", "injected"}) =>
         sink'.inj[out'.att] =
             sink.inj[out'.att] + (IF inj'[out'.att].step_counter <= 3 THEN 1 ELSE 0)]_vars

\* C10 as amended: an invocation emits one record exactly when it is one of
\* the first 3 after attach and it returns an injected output; one that
\* returns the merge early or raises emits none; at most 3 per attachment.
C10_ActiveFirstThreeEmit ==
    [][CfgCalled =>
         LET a == out'.att
         IN /\ sink'.inj[a] =
                 sink.inj[a] + (IF inj'[a].step_counter <= 3 /\ out'.stage = "injected"
                                THEN 1 ELSE 0)
            /\ sink'.inj[a] <= 3
            /\ \A b \in 1..Len(inj) : b # a => sink'.inj[b] = sink.inj[b]]_vars

\* three records were emitted and a fourth, active invocation emitted none
C10_Witness ==
    /\ out.kind = "cfg" /\ out.att # 0 /\ out.stage = "injected"
    /\ out.step = 4 /\ ~out.logged
    /\ sink.inj[out.att] = 3

\* ----------------------------------------------------- claims: perturber

\* the last call went through the wrapper of attachment out.att
UnetCalled == out.kind = "unet" /\ out.att # 0

\* the noise level of the last call, in units of 1/TDen
OrigLevel == out.args.timestep * 2 * RDen * Den

\* the calls of the denoiser all passed the step's input and conditioning
PassedThrough ==
    \A k \in 1..Len(out.calls) :
        out.calls[k].input = out.args.input /\ out.calls[k].c = out.args.c

\* the returned tensor is original * (1 - mask) + perturbed * mask, the two
\* being the denoiser's outputs at the two noise levels
ReturnedBlend ==
    LET orig == ApplyModel(out.args.input, OrigLevel, out.args.c)
        noisy == ApplyModel(out.args.input, out.noisy, out.args.c)
        m == out.latent_mask
        pick(t, i) == IF Batch(t) = 1 THEN t[1] ELSE t[i]
    IN /\ out.result_den = Den
       /\ Batch(out.result) = Max(Batch(orig), Batch(m))
       /\ \A i \in 1..Batch(out.result) : \A j \in 1..Width(orig) :
            out.result[i][j] =
                pick(orig, i)[j] * (Den - pick(m, i)[j]) + pick(noisy, i)[j] * pick(m, i)[j]

\* C3 as stated: with a region mask every step calls the denoiser exactly
\* twice, with the original and then the perturbed noise level, and returns
\* original * (1 - mask) + perturbed * mask.
C3_MaskedStepBlends ==
    (UnetCalled /\ pert[out.att].stored_mask.rank # 0) =>
        /\ Len(out.calls) = 2
        /\ out.calls[1].timestep = OrigLevel
        /\ out.calls[2].timestep = out.noisy
        /\ PassedThrough
        /\ ReturnedBlend

\* C3, what the code does with a mask: a step that returns made one call
\* with the original level when out of the window, and the two calls and
\* the blend when inside it.
C3_MaskedStepThatReturns ==
    (UnetCalled /\ pert[out.att].stored_mask.rank # 0
       /\ out.stage \in {"skipped", "perturbed", "blended"}) =>
        IF out.in_range
        THEN /\ out.stage = "blended"
             /\ Len(out.calls) = 2
             /\ out.calls[1].timestep = OrigLevel
             /\ out.calls[2].timestep = out.noisy
             /\ ReturnedBlend
        ELSE /\ out.stage = "skipped"
             /\ Len(out.calls) = 1
             /\ out.calls[1].timestep = OrigLevel

\* C4 as stated: without a mask every step calls the denoiser exactly once,
\* with the perturbed level inside the window and the original level
\* outside it, input and conditioning passed through.
C4_UnmaskedStepCallsOnce ==
    (UnetCalled /\ pert[out.att].stored_mask.rank = 0) =>
        /\ Len(out.calls) = 1
        /\ PassedThrough
        /\ out.calls[1].timestep =
             (IF InRange(out.progress, pert[out.att].stored_start,
                         pert[out.att].stored_end)
              THEN out.noisy ELSE OrigLevel)
        /\ out.result = ApplyModel(out.args.input, out.calls[1].timestep, out.args.c)

\* C4, what the code does without a mask: the statement holds of every step
\* whose seed stored_seed + current_step fits 64 bits.
C4_UnmaskedStepThatSeeds ==
    (UnetCalled /\ pert[out.att].stored_mask.rank = 0
       /\ ~SeedRaises(StepSeed(pert[out.att].stored_seed, out.step))) =>
        /\ Len(out.calls) = 1
        /\ PassedThrough
        /\ out.calls[1].timestep = (IF out.in_range THEN out.noisy ELSE OrigLevel)
        /\ out.result = ApplyModel(out.args.input, out.calls[1].timestep, out.args.c)

\* C5: matched_idx is the lowest index of a schedule value closest to the
\* noise level; progress is matched_idx / (len - 1) within [0, 1], and 0 for
\* a schedule of one element or none; [1.0, 0.5, 0.0] and 0.49 give 1 and 0.5.
C5_ScheduleMatch ==
    UnetCalled =>
        LET sig == pert[out.att].stored_sigmas
            t == out.args.timestep
            m == out.matched_idx + 1
        IN /\ Len(sig) >= 1 =>
                /\ m \in 1..Len(sig)
                /\ \A k \in 1..Len(sig) : Abs(sig[m] - t) <= Abs(sig[k] - t)
                /\ \A k \in 1..(m - 1) : Abs(sig[k] - t) > Abs(sig[m] - t)
           /\ Len(sig) >= 2 =>
                /\ REq(out.progress, Ratio(out.matched_idx, Len(sig) - 1))
                /\ RLeq(Ratio(0, 1), out.progress)
                /\ RLeq(out.progress, Ratio(1, 1))
           /\ Len(sig) <= 1 => out.matched_idx = 0 /\ out.progress.n = 0
           /\ (sig = <<100, 50, 0>> /\ t = 49) =>
                out.matched_idx = 1 /\ REq(out.progress, Ratio(1, 2))

\* the schedule of the example, queried at 0.49
C5_Witness ==
    /\ UnetCalled
    /\ pert[out.att].stored_sigmas = <<100, 50, 0>>
    /\ out.args.timestep = 49
    /\ out.matched_idx = 1

\* C6: in flow mode with the noise level in [0, 1] the delta lies in
\* [-min(strength, level), +min(strength, 1 - level)] and the perturbed
\* level in [0, 1]; a range that is not above epsilon gives delta 0.
C6_AdditiveHeadroom ==
    (UnetCalled /\ pert[out.att].stored_mode = "flow"
       /\ out.stage \in {"skipped", "perturbed", "blended", "raised_arith"}) =>
        LET t == out.args.timestep
            s == pert[out.att].stored_strength
            down == Min(s, t)
            up == Min(s, Den - t)
            unit == 2 * RDen * Den
        IN /\ (down + up) * 1000000 <= Den => out.actual_delta = 0
           /\ (0 <= t /\ t <= Den) =>
                /\ -down * unit <= out.actual_delta
                /\ out.actual_delta <= up * unit
                /\ out.noisy = OrigLevel + out.actual_delta
                /\ 0 <= out.noisy /\ out.noisy <= TDen

\* a step whose strength exceeds the headroom below the level
C6_Witness ==
    /\ UnetCalled /\ pert[out.att].stored_mode = "flow"
    /\ out.stage = "perturbed"
    /\ out.args.timestep = 49
    /\ pert[out.att].stored_strength > 49
    /\ out.actual_delta < 0

\* two attachments made with the same mode, strength and schedule
SameSetup(a, b) ==
    /\ pert[a].stored_mode = pert[b].stored_mode
    /\ pert[a].stored_strength = pert[b].stored_strength
    /\ pert[a].stored_sigmas = pert[b].stored_sigmas

\* the last steps of two wrappers both perturbed the same noise level
BothPerturbed(a, b) ==
    /\ sampler[a].stage = "perturbed" /\ sampler[b].stage = "perturbed"
    /\ sampler[a].timestep = sampler[b].timestep

\* C7 as stated: with the same seed, schedule, mode and strength, the step
\* at the same index of a generation run gets the same perturbed level in
\* every run.
C7_SameRunIndexSameLevel ==
    \A a, b \in 1..Len(pert) :
        (SameSetup(a, b) /\ pert[a].stored_seed = pert[b].stored_seed
           /\ BothPerturbed(a, b) /\ sampler[a].pos = sampler[b].pos)
        => sampler[a].noisy = sampler[b].noisy

\* C7 as amended: the perturbed level of a step is fixed by mode, strength,
\* noise level and the sum of the seed and the attachment's step counter,
\* which counts the calls since attach and is not reset by a new run: a run
\* on a new attachment repeats the levels, a second run on the same
\* attachment does not.
C7_SameSeedSumSameLevel ==
    \A a, b \in 1..Len(pert) :
        (SameSetup(a, b) /\ BothPerturbed(a, b)
           /\ AddToLimbs(pert[a].stored_seed, sampler[a].step)
                = AddToLimbs(pert[b].stored_seed, sampler[b].step))
        => sampler[a].noisy = sampler[b].noisy

\* two attachments with one seed at the same counter value, one of them
\* after a call of the other
C7_Witness ==
    /\ Len(pert) = 2
    /\ SameSetup(1, 2) /\ pert[1].stored_seed = pert[2].stored_seed
    /\ BothPerturbed(1, 2)
    /\ sampler[1].step = 2 /\ sampler[2].step = 2
    /\ sampler[1].noisy = sampler[2].noisy
    /\ sampler[1].noisy # sampler[1].timestep * 2 * RDen * Den

\* -------------------------------------------- claims: perturber mask, seed

\* the mask handed to patch() for the attachment of the last call
StoredMask == pert[out.att].stored_mask

\* the wrapper raised on the shape of the mask or of the blend
RaisedOnShape == out.stage \in {"raised_resize", "raised_arith"}

\* C11 as stated: a perturber step with a mask of rank 2, 3 or 4 never
\* raises for a shape or batch mismatch, the mask being aligned as the
\* injector aligns it: resized, a single sample replicated, more samples
\* than the batch truncated.
C11_MaskAlignedNeverRaises ==
    (UnetCalled /\ StoredMask.rank \in {2, 3, 4}) =>
        /\ ~RaisedOnShape
        /\ out.latent_mask = AlignTo(StoredMask.data, Batch(out.args.input),
                                     Width(out.args.input))

\* C11, what the code does: a mask of rank 2 or 3 with a single sample or
\* as many samples as the input is aligned as the injector aligns it and
\* the step does not raise on shapes.
C11_MaskThatFits ==
    (UnetCalled /\ StoredMask.rank \in {2, 3}
       /\ Batch(StoredMask.data) \in {1, Batch(out.args.input)}) =>
        /\ ~RaisedOnShape
        /\ out.latent_mask = AlignTo(StoredMask.data, Batch(out.args.input),
                                     Width(out.args.input))

\* C11, what the code does with the other masks: rank 4 raises in the
\* resize, more samples than a batch of one are all kept, and any other
\* batch mismatch raises in the blend of a step inside the window.
C11_MaskThatDoesNotFit ==
    (UnetCalled /\ StoredMask.rank # 0
       /\ ~SeedRaises(StepSeed(pert[out.att].stored_seed, out.step))) =>
        /\ StoredMask.rank = 4 <=> out.stage = "raised_resize"
        /\ (StoredMask.rank # 4 /\ Batch(StoredMask.data) > 1) =>
              /\ Batch(out.latent_mask) = Batch(StoredMask.data)
              /\ out.stage = "raised_arith" <=>
                   (out.in_range /\ Batch(out.args.input) > 1
                      /\ Batch(out.args.input) # Batch(StoredMask.data))

\* C15 as stated: the seed stored_seed + current_step handed to the
\* generator stays within 64 bits at every step, so seeding never fails.
C15_SeedStaysIn64Bits ==
    UnetCalled =>
        /\ ~SeedRaises(StepSeed(pert[out.att].stored_seed, out.step))
        /\ out.stage # "raised_seed"

\* C15, what the code does: seeding fails exactly when the seed plus the
\* step counter exceeds 0xffffffffffffffff, and then no call is made.
C15_SeedFailsOnCarry ==
    (UnetCalled /\ out.stage # "raised_resize") =>
        LET s == StepSeed(pert[out.att].stored_seed, out.step)
        IN /\ out.stage = "raised_seed" <=> s.carry > 0
           /\ out.stage = "raised_seed" => out.calls = <<>> /\ out.result = <<>>

\* -------------------------------------------------- claims: step counter

\* the cfg_function of injector attachment a was invoked in this step
CfgInvoked(a) == out' # out /\ out'.kind = "cfg" /\ out'.att = a

\* the sampler advanced by one call through the wrapper of attachment a
UnetInvoked(a) == a <= Len(sampler) /\ sampler'[a].pos = sampler[a].pos + 1

\* the sampler began another run on the wrapper of attachment a
RunStarted(a) ==
    a <= Len(sampler) /\ sampler[a].pos > 0 /\ sampler'[a].pos = 0

\* C13: the step counter of an attachment is 0 at attach time, goes up by
\* exactly 1 on every invocation of its hook (inside or outside the window,
\* with or without a mask, returning or raising), is changed by nothing
\* else (not by a new run, not by another attachment's invocations), and
\* the perturber's counter is the number of calls the sampler has made.
C13_CounterCountsInvocations ==
    /\ [][/\ Len(inj') >= Len(inj) /\ Len(pert') >= Len(pert)
          /\ \A a \in 1..Len(inj') :
               inj'[a].step_counter =
                   IF a > Len(inj) THEN 0
                   ELSE inj[a].step_counter + (IF CfgInvoked(a) THEN 1 ELSE 0)
          /\ \A a \in 1..Len(pert') :
               pert'[a].step_counter =
                   IF a > Len(pert) THEN 0
                   ELSE pert[a].step_counter + (IF UnetInvoked(a) THEN 1 ELSE 0)
          /\ \A a \in 1..Len(pert) :
               RunStarted(a) => pert'[a].step_counter = pert[a].step_counter]_vars
    /\ [](\A a \in 1..Len(pert) :
            /\ pert[a].step_counter = sampler[a].step
            /\ pert[a].step_counter >= sampler[a].pos)

\* a perturber in its second run, its counter at 3 after one call of that
\* run, beside an injector whose single invocation was outside its window
C13_Witness ==
    /\ Len(pert) >= 1 /\ Len(inj) >= 1
    /\ pert[1].step_counter = 3 /\ sampler[1].pos = 1
    /\ inj[1].step_counter = 1
    /\ out.kind = "cfg" /\ out.att = 1 /\ out.stage = "early"

\* ------------------------------------------------------- claims: editor

\* the text is a JSON list of numbers, as many as the schedule has entries
WellFormed(text, sigmas) ==
    LET r == JsonLoads(text)
    IN /\ r.ok /\ r.val.k = "list"
       /\ Len(r.val.items) = Len(sigmas)
       /\ \A i \in 1..Len(r.val.items) : r.val.items[i].k = "num"

\* the last call returned its input schedule as it was
ReturnedOriginal ==
    editor.last.stage = "returned" /\ editor.last.result = ToArray(editor.last.sigmas)

\* C12 as stated: for every sigmas_adjustments that is not a well-formed
\* list of numbers of the schedule's length, adjust_sigmas returns the
\* untouched schedule and propagates no error.
C12_MalformedFallsBack ==
    (editor.last.stage # "none" /\ ~WellFormed(editor.last.text, editor.last.sigmas))
        => ReturnedOriginal

\* C12, what the code does: the schedule comes back untouched when it is
\* not empty and the text is unparsable or decodes to a list, object or
\* string whose length differs from the schedule's.
C12_FallsBackOnOtherLength ==
    LET l == editor.last
        r == JsonLoads(l.text)
    IN (l.stage # "none" /\ l.sigmas # <<>>
          /\ (~r.ok \/ (HasLen(r.val) /\ PyLen(r.val) # Len(l.sigmas))))
        => ReturnedOriginal

\* C12, what the code does with the rest: a JSON number, boolean or null
\* raises in len(); a value of the schedule's length that holds a
\* non-numeric string, an object or rows of unequal shapes raises in
\* np.array; an empty schedule raises in sigmas_np[-1].
C12_ErrorsThatPropagate ==
    LET l == editor.last
        r == JsonLoads(l.text)
    IN l.stage # "none" =>
        /\ l.stage = "raised_len" <=> (r.ok /\ ~HasLen(r.val))
        /\ l.stage = "raised_array" <=>
             (r.ok /\ HasLen(r.val) /\ PyLen(r.val) = Len(l.sigmas)
                /\ NpArray(r.val).raises)
        /\ (l.sigmas = <<>> /\ (~r.ok \/ HasLen(r.val))) =>
             l.stage \in {"raised_index", "raised_array"}

\* a call of adjust_sigmas with a node id has returned or raised
EditCalled == editor' # editor /\ editor'.last.unique_id # "None"

\* message, cache entry and the other entries after a call, given the cache
\* before it
CacheFollows(before, after) ==
    LET u == after.last.unique_id
        key == [has |-> TRUE, key |-> after.last.sigmas]
    IN /\ after.last.sent <=> before.cache[u] # key
       /\ after.last.sent =>
            after.last.message = [node_id |-> u, original |-> after.last.sigmas,
                                   adjusted |-> after.last.result]
       /\ after.cache[u] = key
       /\ \A w \in NodeIds \ {u} : after.cache[w] = before.cache[w]

\* C14 as stated: on every call with a node id the update message is sent
\* exactly when the input schedule differs from the one recorded for that
\* id (or none is recorded), the entry of the id is the input schedule
\* after the call, and the other entries are unchanged.
C14_SendsWhenScheduleChanges ==
    [][EditCalled => CacheFollows(editor, editor')]_vars

\* C14, what the code does: the statement holds of the calls that return;
\* a call that raises sends nothing and leaves the cache as it was.
C14_ReturningCallSends ==
    [][EditCalled =>
         IF editor'.last.stage = "returned"
         THEN CacheFollows(editor, editor')
         ELSE ~editor'.last.sent /\ editor'.cache = editor.cache]_vars

====
